---- MODULE Spec2Model ----
(***************************************************************************)
(* Options strategy simulator: the pricing / projection / stress-scenario  *)
(* engine of the two calculator pages of the repository.                   *)
(*                                                                         *)
(*   Spec       the extended page (src/unnamed/part_001, component Index)  *)
(*   SpecBasic  the basic page    (src/src/pages/Index.tsx)                *)
(*                                                                         *)
(* Real numbers are fixed-point integers with SCALE units per 1.0.         *)
(* A React event handler reads the state of the render it was created in   *)
(* (the unprimed variables) and queues its state updates (the primed       *)
(* variables); the effects whose dependencies changed run afterwards, in   *)
(* the step RunEffects, with the state the handler left.                   *)
(***************************************************************************)
EXTENDS Integers, Sequences, FiniteSets, TLC

\* ---------------------------------------------------------------- bounds
MaxLegs == 2
MaxSteps == 4

\* ------------------------------------------------------- fixed-point reals
SCALE == 10 * 10 * 10

Abs(x) == IF x < 0 THEN -x ELSE x
Sgn(x) == IF x < 0 THEN -1 ELSE 1
Max(a, b) == IF a > b THEN a ELSE b

\* a*b on non-negative fixed-point numbers, split so that no intermediate
\* product leaves the machine integer range
MulU(a, b) ==
    LET ah == a \div SCALE
        al == a % SCALE
        bh == b \div SCALE
        bl == b % SCALE
    IN  ah * bh * SCALE + ah * bl + al * bh + (al * bl) \div SCALE

Mul(a, b) == Sgn(a) * Sgn(b) * MulU(Abs(a), Abs(b))

\* Infinity: a magnitude beyond every value of the model whose square still
\* fits the machine integers; NaN takes part in no arithmetic
Infinity == SCALE * SCALE
NaN == "NaN"

\* a/b; x/0 is +-Infinity and 0/0 is NaN
Div(a, b) ==
    IF b = 0 THEN (IF a = 0 THEN NaN ELSE Sgn(a) * Infinity)
    ELSE Sgn(a) * Sgn(b) * ((Abs(a) * SCALE) \div Abs(b))

RECURSIVE ExpSeries(_, _, _, _)
ExpSeries(x, term, n, acc) ==
    IF term = 0 THEN acc
    ELSE ExpSeries(x, Mul(term, x) \div n, n + 1, acc + term)

\* Math.exp; below e^-7 the value is under one fixed-point unit
Exp(x) == IF x >= 0 THEN ExpSeries(x, SCALE, 1, 0)
          ELSE IF x < -7 * SCALE THEN 0
          ELSE Div(SCALE, ExpSeries(-x, SCALE, 1, 0))

RECURSIVE LnSeries(_, _, _, _)
LnSeries(z2, pow, n, acc) ==
    IF pow = 0 THEN acc
    ELSE LnSeries(z2, Mul(pow, z2), n + 2, acc + pow \div n)

\* Math.log, y > 0: 2*atanh((y-1)/(y+1))
Ln(y) ==
    LET z == Div(y - SCALE, y + SCALE)
    IN  Sgn(z) * 2 * LnSeries(Mul(z, z), Abs(z), 1, 0)

RECURSIVE Newton(_, _)
Newton(n, r) ==
    LET r2 == (r + n \div r) \div 2
    IN  IF r2 >= r THEN r ELSE Newton(n, r2)

\* Math.sqrt, x >= 0
Sqrt(x) == IF x = 0 THEN 0 ELSE Newton(x * SCALE, x * SCALE)

\* ------------------------------------------------------------------ dates
\* a date is [y, m, d] with m in 0..11 as in a JavaScript Date; the time
\* zone is UTC, so the parsed ISO date and the local getters agree
IsLeap(y) == (y % 4 = 0 /\ y % 100 # 0) \/ y % 400 = 0

DaysInMonth(y, m) ==
    IF m = 1 THEN (IF IsLeap(y) THEN 29 ELSE 28)
    ELSE IF m \in {3, 5, 8, 10} THEN 30 ELSE 31

\* Date's normalisation of an overflowing month or day number
RECURSIVE Normalize(_, _, _)
Normalize(y, m, d) ==
    IF m > 11 THEN Normalize(y + 1, m - 12, d)
    ELSE IF d > DaysInMonth(y, m) THEN Normalize(y, m + 1, d - DaysInMonth(y, m))
    ELSE [y |-> y, m |-> m, d |-> d]

\* date.setMonth(date.getMonth() + k)
AddMonths(date, k) == Normalize(date.y, date.m + k, date.d)

\* k times currentDate.setMonth(currentDate.getMonth() + 1)
RECURSIVE StepMonths(_, _)
StepMonths(date, k) == IF k = 0 THEN date ELSE StepMonths(AddMonths(date, 1), k - 1)

\* new Date(year, month + 1, 0)
LastDayOfMonth(date) == [y |-> date.y, m |-> date.m, d |-> DaysInMonth(date.y, date.m)]

\* `${date.getFullYear()}-${date.getMonth() + 1}`
MonthKey(date) == <<date.y, date.m + 1>>

\* the start dates the model enters, and the year day numbers count from
StartDates == {[y |-> 2024, m |-> 10, d |-> 15]}
BaseYear == CHOOSE y \in {d.y : d \in StartDates} : \A d \in StartDates : y <= d.y

RECURSIVE DaysBeforeMonth(_, _)
DaysBeforeMonth(y, m) ==
    IF y = BaseYear /\ m = 0 THEN 0
    ELSE IF m = 0 THEN DaysBeforeMonth(y - 1, 11) + 31
    ELSE DaysBeforeMonth(y, m - 1) + DaysInMonth(y, m - 1)

\* (a - b) in days, for dates from BaseYear on
DayNumber(date) == DaysBeforeMonth(date.y, date.m) + date.d
DaysBetween(a, b) == DayNumber(a) - DayNumber(b)

\* ---------------------------------------------------------------- pricing
A1 == 255
A2 == -284
A3 == 1421
A4 == -1453
A5 == 1061
P == 328

\* erf of the extended page: the polynomial stops at a2
ErfExtended(x) ==
    LET ax == Abs(x)
        t == Div(SCALE, SCALE + Mul(P, ax))
        poly == Mul(Mul(Mul(Mul(A5, t) + A4, t) + A3, t) + A2, t)
        y == SCALE - Mul(poly, Exp(-Mul(ax, ax)))
    IN  Sgn(x) * y

\* erf of the basic page: the full five-term polynomial
ErfBasic(x) ==
    LET ax == Abs(x)
        t == Div(SCALE, SCALE + Mul(P, ax))
        poly == Mul(Mul(Mul(Mul(Mul(A5, t) + A4, t) + A3, t) + A2, t) + A1, t)
        y == SCALE - Mul(poly, Exp(-Mul(ax, ax)))
    IN  Sgn(x) * y

Erf(page, x) == IF page = "extended" THEN ErfExtended(x) ELSE ErfBasic(x)

\* (1 + erf(x / Math.sqrt(2))) / 2
NormalCdf(page, x) == (SCALE + Erf(page, Div(x, Sqrt(2 * SCALE)))) \div 2

\* a faulty premium: the put weighs strike and underlying with N(d2) and N(d1)
\* where it should take their complements
BlackScholesPutWeights(page, type, S, K, r, t, sigma) ==
    LET sq == Sqrt(t)
        d1 == Div(Ln(Div(S, K)) + Mul(r + Mul(sigma, sigma) \div 2, t), Mul(sigma, sq))
        d2 == d1 - Mul(sigma, sq)
        Nd1 == NormalCdf(page, d1)
        Nd2 == NormalCdf(page, d2)
        disc == Exp(-Mul(r, t))
    IN  IF type = "call"
        THEN Mul(S, Nd1) - Mul(Mul(K, disc), Nd2)
        ELSE Mul(Mul(K, disc), Nd2) - Mul(S, Nd1)

\* Black-Scholes premium; sigma is the volatility the pricer ends up using,
\* t > 0 and sigma > 0
BlackScholes(page, type, S, K, r, t, sigma) ==
    LET sq == Sqrt(t)
        d1 == Div(Ln(Div(S, K)) + Mul(r + Mul(sigma, sigma) \div 2, t), Mul(sigma, sq))
        d2 == d1 - Mul(sigma, sq)
        Nd1 == NormalCdf(page, d1)
        Nd2 == NormalCdf(page, d2)
        disc == Exp(-Mul(r, t))
    IN  IF type = "call"
        THEN Mul(S, Nd1) - Mul(Mul(K, disc), Nd2)
        ELSE Mul(Mul(K, disc), SCALE - Nd2) - Mul(S, SCALE - Nd1)

\* obj[key] || fallback on a price mapping: a missing entry and a zero
\* entry are both falsy
Lookup(map, key, fallback) ==
    IF key \in DOMAIN map /\ map[key] # 0 THEN map[key] ELSE fallback

\* the implied-volatility override of the extended page
EffectiveVolatility(siv, cv, key, sigma) ==
    IF siv THEN Lookup(cv, key, sigma) ELSE sigma

calculateOptionPrice(page, siv, cv, type, S, K, r, t, sigma, key) ==
    BlackScholes(page, type, S, K, r, t,
                 IF page = "extended" THEN EffectiveVolatility(siv, cv, key, sigma) ELSE sigma)

\* strike of a leg in price units
StrikeOf(opt, spot) ==
    IF opt.strikeType = "percent" THEN Mul(spot, opt.strike \div 100) ELSE opt.strike

Intrinsic(type, price, strike) ==
    IF type = "call" THEN Max(price - strike, 0) ELSE Max(strike - price, 0)

\* f itself, evaluated once and for all rather than at each application
Eager(f) == f @@ <<>>

\* the element of a singleton; {F(x) : x \in {e}} computes e once for all its
\* uses in F
Only(S) == CHOOSE x \in S : TRUE

RECURSIVE SumSeq(_)
SumSeq(s) == IF s = <<>> THEN 0 ELSE Head(s) + SumSeq(Tail(s))

NoKey == <<0, 0>>
NumPoints == 101

\* the curve calculatePayoff stores for a non-empty strategy
PayoffCurve(page, strat, p) ==
    LET spot == p.spotPrice
        Strikes == Eager([j \in 1..Len(strat) |-> StrikeOf(strat[j], spot)])
        Premiums(strikes) ==
            Eager([j \in 1..Len(strat) |->
                    calculateOptionPrice(page, FALSE, <<>>, strat[j].type, spot, strikes[j],
                                         p.interestRate \div 100, SCALE, strat[j].volatility \div 100,
                                         NoKey)])
        Curve(strikes, prem) ==
            Eager([k \in 1..NumPoints |->
                LET price == Mul(spot, SCALE \div 2 + (k - 1) * (SCALE \div 100))
                IN  [price |-> price,
                     payoff |-> SumSeq([j \in 1..Len(strat) |->
                                    Mul(Intrinsic(strat[j].type, price, strikes[j]) - prem[j],
                                        strat[j].quantity \div 100)])]])
    IN  Only({Curve(strikes, prem) : strikes \in {Strikes}, prem \in {Premiums(Strikes)}})

\* optionPrices of one period
OptionPrices(page, siv, cv, strat, p, forward, t, key) ==
  Eager(
    [j \in 1..Len(strat) |->
        LET strike == StrikeOf(strat[j], p.spotPrice)
            volatility == EffectiveVolatility(page = "extended" /\ siv, cv, key,
                                              strat[j].volatility \div 100)
        IN  [type |-> strat[j].type,
             price |-> calculateOptionPrice(page, siv, cv, strat[j].type, forward, strike,
                                            p.interestRate \div 100, t, volatility, key),
             quantity |-> strat[j].quantity \div 100,
             strike |-> strike]])

StrategyPrice(ops) == SumSeq([j \in 1..Len(ops) |-> Mul(ops[j].price, ops[j].quantity)])

TotalPayoff(ops, realPrice) ==
    SumSeq([j \in 1..Len(ops) |->
               Mul(Intrinsic(ops[j].type, realPrice, ops[j].strike), ops[j].quantity)])

\* ------------------------------------------------------------------ state
VARIABLES
    params,               \* [startDate, monthsToHedge, interestRate, totalVolume, spotPrice]
    initialSpotPrice,     \* extended page: the spot the price shock is applied to
    strategy,             \* sequence of legs
    results,              \* NoResults (null) or the sequence of periods
    payoffData,           \* sequence of [price, payoff] points
    manualForwards,       \* month key -> forward price
    realPrices,           \* month key -> real price
    realPriceParams,      \* [useSimulation, volatility, drift]
    stressTestScenarios,  \* scenario key -> scenario
    activeStressTest,     \* extended page: key of the scenario last run, or Null
    showImpliedVol,       \* extended page: monthly implied volatility enabled
    customVolatilities,   \* extended page: month key -> implied volatility
    pending,              \* effects whose dependencies changed in the last commit
    lastOp,               \* history: the handler that ran last, and how far it got
    projSpot,             \* history: params.spotPrice as read by the last projection
    enteredSpot,          \* history: the spot the user entered last
    steps                 \* number of user events so far

vars == <<params, initialSpotPrice, strategy, results, payoffData, manualForwards,
          realPrices, realPriceParams, stressTestScenarios, activeStressTest,
          showImpliedVol, customVolatilities, pending, lastOp, projSpot, enteredSpot,
          steps>>

Null == "null"
NoResults == <<>>
EmptyMap == [k \in {} |-> 0]

\* f overwritten by g
Overwrite(f, g) ==
    [k \in DOMAIN f \cup DOMAIN g |-> IF k \in DOMAIN g THEN g[k] ELSE f[k]]

\* the mapping left by writing value[i] under key[i] for i = 0, 1, .. n-1
Written(n, key, value) ==
    [k \in {key[i] : i \in 0..n-1} |->
        value[CHOOSE i \in 0..n-1 : key[i] = k /\ \A j \in 0..n-1 : key[j] = k => j <= i]]

\* ------------------------------------------------------- inputs of the model
HedgeMonths == {2, 3}
Spots == {100 * SCALE, 120 * SCALE}
RandSet == {-SCALE, SCALE \div 2}
Draws(n) == [0..n-1 -> RandSet]
NoDraws(n) == [i \in 0..n-1 |-> 0]

DefaultLeg ==
    [type |-> "call", strike |-> 100 * SCALE, strikeType |-> "percent",
     volatility |-> 20 * SCALE, quantity |-> 100 * SCALE]

OptionEdits == {<<"type", "put">>, <<"strike", 110 * SCALE>>}

Scenario(v, dr, shock, fb, rb) ==
    [volatility |-> v, drift |-> dr, priceShock |-> shock, forwardBasis |-> fb, realBasis |-> rb]

\* an optional field is the empty set (undefined) or the singleton of its value
BasicCatalog ==
    [base          |-> Scenario(200, 10, 0, {0}, {}),
     highVol       |-> Scenario(400, 10, 0, {0}, {}),
     crash         |-> Scenario(500, -30, -200, {0}, {}),
     bull          |-> Scenario(150, 20, 100, {0}, {}),
     contango      |-> Scenario(200, 10, 0, {10}, {}),
     backwardation |-> Scenario(200, 10, 0, {-10}, {})]

InitialCatalog ==
    [base              |-> Scenario(200, 10, 0, {0}, {}),
     highVol           |-> Scenario(400, 10, 0, {0}, {}),
     crash             |-> Scenario(500, -30, -200, {0}, {}),
     bull              |-> Scenario(150, 20, 100, {0}, {}),
     contango          |-> Scenario(200, 10, 0, {10}, {}),
     backwardation     |-> Scenario(200, 10, 0, {-10}, {}),
     contangoReal      |-> Scenario(200, 10, 0, {}, {10}),
     backwardationReal |-> Scenario(200, 10, 0, {}, {-10}),
     custom            |-> Scenario(200, 10, 0, {0}, {})]

\* the defaults resetScenario restores from
DEFAULT_SCENARIOS ==
    [base    |-> Scenario(200, 10, 0, {0}, {}),
     highVol |-> Scenario(400, 10, 0, {0}, {}),
     crash   |-> Scenario(500, -30, -200, {0}, {}),
     bull    |-> Scenario(150, 20, 100, {0}, {})]

\* ------------------------------------------------- projection, extended page
\* calculateSimulatedPrice: a step of monthIndex/12 years straight from the spot
calculateSimulatedPrice(spotPrice, monthIndex, rpp, u) ==
    LET t == (monthIndex * SCALE) \div 12
    IN  Mul(spotPrice,
            Exp(Mul(rpp.drift - Mul(rpp.volatility, rpp.volatility) \div 2, t)
                + Mul(Mul(rpp.volatility, Sqrt(t)), u)))

\* the value of a date's toISOString().split('T')[0], and of a month label
IsoDate(date) == [fmt |-> "iso", y |-> date.y, m |-> date.m, d |-> date.d]
LabelDate(date) == [fmt |-> "label", y |-> date.y, m |-> date.m, d |-> 1]

\* new Date(row.date)
ParseDate(str) == [y |-> str.y, m |-> str.m, d |-> str.d]

\* row.date.split(' ')[1]: the second word of the string, undefined (the empty
\* set) when the string has no space
SecondWord(str) == IF str.fmt = "label" THEN {str.y} ELSE {}

\* the yearly summary of a result set, a map from the keys acc[year] creates
calculateYearlyResults(rs) ==
    LET Total(year, field) ==
            SumSeq([k \in 1..Len(rs) |->
                       IF SecondWord(rs[k].date) = year THEN rs[k][field] ELSE 0])
    IN  [year \in {SecondWord(rs[k].date) : k \in 1..Len(rs)} |->
            [hedgedCost |-> Total(year, "hedgedCost"),
             unhedgedCost |-> Total(year, "unhedgedCost"),
             deltaPnL |-> Total(year, "deltaPnL")]]

\* timeToMaturity of period i
TimeToMaturity(p, i) ==
    LET lastDay == DaysInMonth(p.startDate.y, p.startDate.m)
        daysInFirstMonth == lastDay - p.startDate.d + 1
    IN  IF i = 0 THEN (daysInFirstMonth * SCALE) \div (lastDay * p.monthsToHedge)
        ELSE (i * SCALE) \div p.monthsToHedge

\* hedgedCost of the extended page
HedgedCost(monthlyVolume, realPrice, strategyPrice, totalPayoff) ==
    Mul(monthlyVolume, realPrice + strategyPrice - totalPayoff)

\* deltaPnL of the extended page
DeltaPnL(unhedgedCost, hedgedCost) == unhedgedCost - hedgedCost

\* period i of calculateResults
PeriodOf(p, strat, mf, rp, rpp, siv, cv, i, u) ==
    LET date == AddMonths(p.startDate, i)
        monthKey == MonthKey(date)
        timeToMaturity == TimeToMaturity(p, i)
        forward == Lookup(mf, monthKey, p.spotPrice)
        realPrice == IF rpp.useSimulation
                     THEN calculateSimulatedPrice(p.spotPrice, i, rpp, u)
                     ELSE Lookup(rp, monthKey, forward)
        monthlyVolume == p.totalVolume \div p.monthsToHedge
        Row(optionPrices) ==
            LET strategyPrice == StrategyPrice(optionPrices)
                totalPayoff == TotalPayoff(optionPrices, realPrice)
                hedgedCost == HedgedCost(monthlyVolume, realPrice, strategyPrice, totalPayoff)
                unhedgedCost == Mul(monthlyVolume, realPrice)
            IN  [date |-> IsoDate(date), timeToMaturity |-> timeToMaturity, forward |-> forward,
                 realPrice |-> realPrice, optionPrices |-> optionPrices,
                 strategyPrice |-> strategyPrice, totalPayoff |-> totalPayoff,
                 monthlyVolume |-> monthlyVolume, hedgedCost |-> hedgedCost,
                 unhedgedCost |-> unhedgedCost, deltaPnL |-> DeltaPnL(unhedgedCost, hedgedCost)]
    IN  Only({Row(ops) : ops \in {OptionPrices("extended", siv, cv, strat, p, forward,
                                               timeToMaturity, monthKey)}})

\* a faulty projection: the loop stops one period early
ProjectOnePeriodShort(p, strat, mf, rp, rpp, siv, cv, draws) ==
    [k \in 1..p.monthsToHedge - 1 |->
        PeriodOf(p, strat, mf, rp, rpp, siv, cv, k - 1, draws[k - 1])]

\* newResults of calculateResults for a non-empty strategy
Project(p, strat, mf, rp, rpp, siv, cv, draws) ==
    Eager([k \in 1..p.monthsToHedge |->
              PeriodOf(p, strat, mf, rp, rpp, siv, cv, k - 1, draws[k - 1])])

\* the row removeOption writes over a stored period
RewriteRow(row, newStrategy, p, siv, cv) ==
    LET monthKey == MonthKey(ParseDate(row.date))
        Row(optionPrices) ==
            LET strategyPrice == StrategyPrice(optionPrices)
                totalPayoff == TotalPayoff(optionPrices, row.realPrice)
                hedgedCost == HedgedCost(row.monthlyVolume, row.realPrice, strategyPrice,
                                         totalPayoff)
            IN  [row EXCEPT !.optionPrices = optionPrices, !.strategyPrice = strategyPrice,
                            !.totalPayoff = totalPayoff, !.hedgedCost = hedgedCost,
                            !.deltaPnL = DeltaPnL(row.unhedgedCost, hedgedCost)]
    IN  Only({Row(ops) : ops \in {OptionPrices("extended", siv, cv, newStrategy, p, row.forward,
                                               row.timeToMaturity, monthKey)}})

\* what calculateResults stores, read from the state its closure holds
ResultsOfCalculate(draws) ==
    IF strategy = <<>> THEN NoResults
    ELSE Project(params, strategy, manualForwards, realPrices, realPriceParams,
                 showImpliedVol, customVolatilities, draws)

PayoffOfCalculate ==
    IF strategy = <<>> THEN <<>> ELSE PayoffCurve("extended", strategy, params)

DrawChoices ==
    IF strategy # <<>> /\ realPriceParams.useSimulation
    THEN Draws(params.monthsToHedge) ELSE {NoDraws(params.monthsToHedge)}

\* --------------------------------------------------- scenario curves
Defined(opt) == opt # {}
Val(opt) == CHOOSE v \in opt : TRUE
\* JavaScript truthiness of an optional number
Truthy(opt) == opt # {} /\ opt # {0}

\* month key written in iteration i: currentDate is advanced before it is read
ScenarioKey(p, i) == MonthKey(StepMonths(p.startDate, i + 1))

\* stressedSpotPrice * Math.exp(basis * timeInYears * 12), timeInYears = i/12
BasisPrice(stressedSpotPrice, basis, i) == Mul(stressedSpotPrice, Exp(basis * i))

\* stressedSpotPrice * Math.exp((interestRate/100) * timeInYears)
CarryPrice(p, stressedSpotPrice, i) ==
    Mul(stressedSpotPrice, Exp(Mul(p.interestRate \div 100, (i * SCALE) \div 12)))

BasisCurve(p, stressedSpotPrice, basis) ==
    Written(p.monthsToHedge, [i \in 0..p.monthsToHedge - 1 |-> ScenarioKey(p, i)],
            [i \in 0..p.monthsToHedge - 1 |-> BasisPrice(stressedSpotPrice, basis, i)])

BaseForwards(p, stressedSpotPrice) ==
    Written(p.monthsToHedge, [i \in 0..p.monthsToHedge - 1 |-> ScenarioKey(p, i)],
            [i \in 0..p.monthsToHedge - 1 |-> CarryPrice(p, stressedSpotPrice, i)])

StressedSpot(base, scenario) == Mul(base, SCALE + scenario.priceShock)

\* useSimulation as applyStressTest sets it
UseSimulationOf(scenario) == ~Truthy(scenario.realBasis)

\* manualForwards after the updates applyStressTest queues
ForwardsAfterStress(p, mf, scenario, stressedSpotPrice) ==
    LET cleared == IF Defined(scenario.forwardBasis) THEN EmptyMap ELSE mf
        withBasis == IF Truthy(scenario.forwardBasis)
                     THEN Overwrite(cleared, BasisCurve(p, stressedSpotPrice, Val(scenario.forwardBasis)))
                     ELSE cleared
    IN  IF Truthy(scenario.realBasis)
        THEN Overwrite(withBasis, BaseForwards(p, stressedSpotPrice))
        ELSE withBasis

\* realPrices after the updates applyStressTest queues
RealPricesAfterStress(p, rp, scenario, stressedSpotPrice) ==
    LET cleared == IF Defined(scenario.realBasis) THEN EmptyMap ELSE rp
    IN  IF Truthy(scenario.realBasis)
        THEN Overwrite(cleared, BasisCurve(p, stressedSpotPrice, Val(scenario.realBasis)))
        ELSE cleared

\* ---------------------------------------------------- handlers, extended page
UserEvent(op, key) ==
    /\ pending = {}
    /\ steps < MaxSteps
    /\ steps' = steps + 1
    /\ lastOp' = [op |-> op, key |-> key, phase |-> "handler"]

addOption ==
    /\ UserEvent("addOption", "")
    /\ Len(strategy) < MaxLegs
    /\ strategy' = Append(strategy, DefaultLeg)
    /\ pending' = {"strategy"}
    /\ UNCHANGED <<params, initialSpotPrice, results, payoffData, manualForwards, realPrices,
                   realPriceParams, stressTestScenarios, activeStressTest, showImpliedVol,
                   customVolatilities, projSpot, enteredSpot>>

RemoveAt(s, i) == [k \in 1..Len(s) - 1 |-> IF k < i THEN s[k] ELSE s[k + 1]]

removeOption(indexToRemove) ==
    LET newStrategy == RemoveAt(strategy, indexToRemove)
    IN  /\ UserEvent("removeOption", "")
        /\ indexToRemove \in 1..Len(strategy)
        /\ strategy' = newStrategy
        /\ results' = IF newStrategy = <<>> THEN NoResults
                      ELSE IF results # NoResults
                      THEN [k \in 1..Len(results) |->
                               RewriteRow(results[k], newStrategy, params, showImpliedVol,
                                          customVolatilities)]
                      ELSE results
        /\ payoffData' = IF newStrategy = <<>> THEN <<>>
                         ELSE PayoffCurve("extended", strategy, params)
        /\ pending' = {"strategy"}
        /\ UNCHANGED <<params, initialSpotPrice, manualForwards, realPrices, realPriceParams,
                       stressTestScenarios, activeStressTest, showImpliedVol,
                       customVolatilities, projSpot, enteredSpot>>

\* the leg object is changed in place, so the closure's strategy shows the new value
updateOption(index, field, value) ==
    LET newStrategy == [strategy EXCEPT ![index][field] = value]
    IN  /\ UserEvent("updateOption", "")
        /\ index \in 1..Len(strategy)
        /\ strategy' = newStrategy
        /\ payoffData' = PayoffCurve("extended", newStrategy, params)
        /\ pending' = {"strategy"}
        /\ UNCHANGED <<params, initialSpotPrice, results, manualForwards, realPrices,
                       realPriceParams, stressTestScenarios, activeStressTest, showImpliedVol,
                       customVolatilities, projSpot, enteredSpot>>

calculateResults ==
    /\ UserEvent("calculateResults", "")
    /\ \E draws \in DrawChoices : results' = ResultsOfCalculate(draws)
    /\ payoffData' = PayoffOfCalculate
    /\ projSpot' = IF strategy = <<>> THEN projSpot ELSE params.spotPrice
    /\ pending' = {}
    /\ UNCHANGED <<params, initialSpotPrice, strategy, manualForwards, realPrices,
                   realPriceParams, stressTestScenarios, activeStressTest, showImpliedVol,
                   customVolatilities, enteredSpot>>

applyStressTest(key) ==
    /\ UserEvent("applyStressTest", key)
    /\ activeStressTest' = key
    /\ IF key \notin DOMAIN stressTestScenarios
       THEN /\ pending' = {}
            /\ UNCHANGED <<realPriceParams, manualForwards, realPrices, results, payoffData,
                           projSpot>>
       ELSE LET scenario == stressTestScenarios[key]
                stressedSpotPrice == StressedSpot(initialSpotPrice, scenario)
            IN  /\ realPriceParams' = [realPriceParams EXCEPT
                                          !.useSimulation = UseSimulationOf(scenario),
                                          !.volatility = scenario.volatility,
                                          !.drift = scenario.drift]
                /\ manualForwards' = ForwardsAfterStress(params, manualForwards, scenario,
                                                         stressedSpotPrice)
                /\ realPrices' = RealPricesAfterStress(params, realPrices, scenario,
                                                       stressedSpotPrice)
                /\ \E draws \in DrawChoices : results' = ResultsOfCalculate(draws)
                /\ payoffData' = PayoffOfCalculate
                /\ projSpot' = IF strategy = <<>> THEN projSpot ELSE params.spotPrice
                /\ pending' = IF realPriceParams'.useSimulation # realPriceParams.useSimulation
                              THEN {"useSimulation"} ELSE {}
    /\ UNCHANGED <<params, initialSpotPrice, strategy, stressTestScenarios, showImpliedVol,
                   customVolatilities, enteredSpot>>

ScenarioEdits ==
    {<<"contangoReal", "realBasis", {0}>>, <<"contango", "priceShock", 100>>,
     <<"custom", "realBasis", {20}>>, <<"crash", "priceShock", -100>>}

\* a faulty edit: the field is written into every entry of the catalog
updateEveryScenario(key, field, value) ==
    /\ UserEvent("updateScenario", key)
    /\ key \in DOMAIN stressTestScenarios
    /\ stressTestScenarios' = [k \in DOMAIN stressTestScenarios |->
                                  [stressTestScenarios[k] EXCEPT ![field] = value]]
    /\ pending' = {}
    /\ UNCHANGED <<params, initialSpotPrice, strategy, results, payoffData, manualForwards,
                   realPrices, realPriceParams, activeStressTest, showImpliedVol,
                   customVolatilities, projSpot, enteredSpot>>

updateScenario(key, field, value) ==
    /\ UserEvent("updateScenario", key)
    /\ key \in DOMAIN stressTestScenarios
    /\ stressTestScenarios' = [stressTestScenarios EXCEPT ![key][field] = value]
    /\ pending' = {}
    /\ UNCHANGED <<params, initialSpotPrice, strategy, results, payoffData, manualForwards,
                   realPrices, realPriceParams, activeStressTest, showImpliedVol,
                   customVolatilities, projSpot, enteredSpot>>

ResetKeys == {"crash", "contango"}

\* a key DEFAULT_SCENARIOS lacks passes no test and changes nothing
resetScenario(key) ==
    /\ UserEvent("resetScenario", key)
    /\ stressTestScenarios' =
           IF key \in DOMAIN DEFAULT_SCENARIOS
           THEN [stressTestScenarios EXCEPT ![key] = DEFAULT_SCENARIOS[key]]
           ELSE stressTestScenarios
    /\ pending' = {}
    /\ UNCHANGED <<params, initialSpotPrice, strategy, results, payoffData, manualForwards,
                   realPrices, realPriceParams, activeStressTest, showImpliedVol,
                   customVolatilities, projSpot, enteredSpot>>

handleSpotPriceChange(newPrice) ==
    /\ UserEvent("handleSpotPriceChange", "")
    /\ params' = [params EXCEPT !.spotPrice = newPrice]
    /\ initialSpotPrice' = newPrice
    /\ enteredSpot' = newPrice
    /\ pending' = {}
    /\ UNCHANGED <<strategy, results, payoffData, manualForwards, realPrices, realPriceParams,
                   stressTestScenarios, activeStressTest, showImpliedVol, customVolatilities,
                   projSpot>>

\* the "Use Monte Carlo Simulation" checkbox
setUseSimulation(checked) ==
    /\ UserEvent("setUseSimulation", "")
    /\ realPriceParams' = [realPriceParams EXCEPT !.useSimulation = checked]
    /\ pending' = IF checked # realPriceParams.useSimulation THEN {"useSimulation"} ELSE {}
    /\ UNCHANGED <<params, initialSpotPrice, strategy, results, payoffData, manualForwards,
                   realPrices, stressTestScenarios, activeStressTest, showImpliedVol,
                   customVolatilities, projSpot, enteredSpot>>

\* real prices the effect on useSimulation stores when simulation is off
InitialRealPrices(res) ==
    Written(Len(res), [i \in 0..Len(res) - 1 |-> MonthKey(ParseDate(res[i + 1].date))],
            [i \in 0..Len(res) - 1 |-> res[i + 1].forward])

\* the effects of one commit: useEffect[strategy], useEffect[realPriceParams.useSimulation]
RunEffects ==
    /\ pending # {}
    /\ payoffData' = IF "strategy" \in pending /\ Len(strategy) > 0
                     THEN PayoffCurve("extended", strategy, params) ELSE payoffData
    /\ realPrices' = IF "useSimulation" \in pending /\ ~realPriceParams.useSimulation
                     THEN InitialRealPrices(results) ELSE realPrices
    /\ pending' = {}
    /\ lastOp' = [lastOp EXCEPT !.phase = "effects"]
    /\ UNCHANGED <<params, initialSpotPrice, strategy, results, manualForwards,
                   realPriceParams, stressTestScenarios, activeStressTest, showImpliedVol,
                   customVolatilities, projSpot, enteredSpot, steps>>

\* month key of the row the results table renders at position i
RowKey(i) == MonthKey(ParseDate(results[i].date))

\* the row whose inputs are edited, the prices typed into a price input (0 is
\* also what the cleared input leaves, the falsy ''), the volatility typed
EditRows == {2}
PriceEntries == {0, 90 * SCALE}
VolEntries == {250}

\* onChange of the forward input of a row; onBlur is calculateResults
setManualForward(i, newValue) ==
    /\ UserEvent("setManualForward", "")
    /\ results # NoResults
    /\ i \in 1..Len(results)
    /\ manualForwards' = Overwrite(manualForwards, RowKey(i) :> newValue)
    /\ pending' = {}
    /\ UNCHANGED <<params, initialSpotPrice, strategy, results, payoffData, realPrices,
                   realPriceParams, stressTestScenarios, activeStressTest, showImpliedVol,
                   customVolatilities, projSpot, enteredSpot>>

\* onChange of the real price input of a row, disabled while simulating
setRealPrice(i, newValue) ==
    /\ UserEvent("setRealPrice", "")
    /\ results # NoResults
    /\ i \in 1..Len(results)
    /\ ~realPriceParams.useSimulation
    /\ realPrices' = Overwrite(realPrices, RowKey(i) :> newValue)
    /\ pending' = {}
    /\ UNCHANGED <<params, initialSpotPrice, strategy, results, payoffData, manualForwards,
                   realPriceParams, stressTestScenarios, activeStressTest, showImpliedVol,
                   customVolatilities, projSpot, enteredSpot>>

\* the "Use Monthly Implied Volatility" checkbox
setShowImpliedVol ==
    /\ UserEvent("setShowImpliedVol", "")
    /\ showImpliedVol' = ~showImpliedVol
    /\ pending' = {}
    /\ UNCHANGED <<params, initialSpotPrice, strategy, results, payoffData, manualForwards,
                   realPrices, realPriceParams, stressTestScenarios, activeStressTest,
                   customVolatilities, projSpot, enteredSpot>>

\* onChange of the IV input of a row: the override is queued and
\* calculateResults runs in the closure that does not hold it yet
setCustomVolatility(i, newVol) ==
    /\ UserEvent("setCustomVolatility", "")
    /\ showImpliedVol
    /\ results # NoResults
    /\ i \in 1..Len(results)
    /\ customVolatilities' = Overwrite(customVolatilities, RowKey(i) :> newVol)
    /\ \E draws \in DrawChoices : results' = ResultsOfCalculate(draws)
    /\ payoffData' = PayoffOfCalculate
    /\ projSpot' = IF strategy = <<>> THEN projSpot ELSE params.spotPrice
    /\ pending' = {}
    /\ UNCHANGED <<params, initialSpotPrice, strategy, manualForwards, realPrices,
                   realPriceParams, stressTestScenarios, activeStressTest, showImpliedVol,
                   enteredSpot>>

\* the state the save effect writes to localStorage under 'calculatorState'
Snapshot ==
    [params |-> params, strategy |-> strategy, results |-> results,
     payoffData |-> payoffData, manualForwards |-> manualForwards,
     realPrices |-> realPrices, realPriceParams |-> realPriceParams,
     stressTestScenarios |-> stressTestScenarios]

\* a page reload: the initialisers read the snapshot, the other state starts
\* afresh, and the effects of the mount run on the state so loaded
reload ==
    LET saved == Snapshot
    IN  /\ UserEvent("reload", "")
        /\ params' = saved.params
        /\ initialSpotPrice' = saved.params.spotPrice
        /\ strategy' = saved.strategy
        /\ results' = saved.results
        /\ manualForwards' = saved.manualForwards
        /\ realPriceParams' = saved.realPriceParams
        /\ stressTestScenarios' = saved.stressTestScenarios
        /\ activeStressTest' = Null
        /\ showImpliedVol' = FALSE
        /\ customVolatilities' = EmptyMap
        /\ payoffData' = IF Len(saved.strategy) > 0
                         THEN PayoffCurve("extended", saved.strategy, saved.params)
                         ELSE saved.payoffData
        /\ realPrices' = IF ~saved.realPriceParams.useSimulation
                         THEN InitialRealPrices(saved.results) ELSE saved.realPrices
        /\ pending' = {}
        /\ UNCHANGED <<projSpot, enteredSpot>>

\* realPriceParams as the initialiser, Load This Scenario and
\* clearLoadedScenario write it
DefaultRealPriceParams == [useSimulation |-> FALSE, volatility |-> 300, drift |-> 10]

\* saveScenario of the current state, then Load This Scenario of that scenario
\* on the saved scenarios page: the button writes the snapshot and navigates
\* to the calculator, which mounts from it
loadThisScenario ==
    /\ UserEvent("loadThisScenario", "")
    /\ results # NoResults
    /\ initialSpotPrice' = params.spotPrice
    /\ manualForwards' = EmptyMap
    /\ realPriceParams' = DefaultRealPriceParams
    /\ stressTestScenarios' = EmptyMap
    /\ activeStressTest' = Null
    /\ showImpliedVol' = FALSE
    /\ customVolatilities' = EmptyMap
    /\ payoffData' = IF Len(strategy) > 0 THEN PayoffCurve("extended", strategy, params)
                     ELSE payoffData
    /\ realPrices' = InitialRealPrices(results)
    /\ pending' = {}
    /\ UNCHANGED <<params, strategy, results, projSpot, enteredSpot>>

\* the Clear Loaded Scenario button, rendered while results are stored; the
\* parameters other than the spot never leave their defaults in this model
clearLoadedScenario ==
    /\ UserEvent("clearLoadedScenario", "")
    /\ results # NoResults
    /\ params' = [params EXCEPT !.spotPrice = 100 * SCALE]
    /\ strategy' = <<>>
    /\ results' = NoResults
    /\ payoffData' = <<>>
    /\ manualForwards' = EmptyMap
    /\ realPrices' = EmptyMap
    /\ realPriceParams' = DefaultRealPriceParams
    /\ stressTestScenarios' = InitialCatalog
    /\ pending' = {"strategy"} \cup (IF realPriceParams.useSimulation THEN {"useSimulation"}
                                                                     ELSE {})
    /\ UNCHANGED <<initialSpotPrice, activeStressTest, showImpliedVol, customVolatilities,
                   projSpot, enteredSpot>>

\* what the leg controls of the two tabs can store: a volatility typed as 0,
\* the Strike Type options of the parameters tab ('percent', 'absolute') and
\* of the stress-test tab ('percentage', 'absolute')
LegEdits ==
    {<<"volatility", 0>>, <<"strikeType", "percent">>, <<"strikeType", "absolute">>,
     <<"strikeType", "percentage">>, <<"strike", 110 * SCALE>>}

ApplyKeys == {"base", "crash", "contango", "contangoReal", "custom", "missing"}

Init ==
    /\ params \in [startDate : StartDates, monthsToHedge : HedgeMonths,
                   interestRate : {2 * SCALE}, totalVolume : {12 * SCALE},
                   spotPrice : {100 * SCALE}]
    /\ initialSpotPrice = params.spotPrice
    /\ strategy = <<>>
    /\ results = NoResults
    /\ payoffData = <<>>
    /\ manualForwards = EmptyMap
    /\ realPrices = EmptyMap
    /\ realPriceParams = [useSimulation |-> FALSE, volatility |-> 300, drift |-> 10]
    /\ stressTestScenarios = InitialCatalog
    /\ activeStressTest = Null
    /\ showImpliedVol = FALSE
    /\ customVolatilities = EmptyMap
    /\ pending = {}
    /\ lastOp = [op |-> "init", key |-> "", phase |-> "effects"]
    /\ projSpot = params.spotPrice
    /\ enteredSpot = params.spotPrice
    /\ steps = 0

Next ==
    \/ addOption
    \/ \E i \in 1..MaxLegs : removeOption(i)
    \/ \E i \in 1..MaxLegs, e \in OptionEdits : updateOption(i, e[1], e[2])
    \/ calculateResults
    \/ \E key \in ApplyKeys : applyStressTest(key)
    \/ \E e \in ScenarioEdits : updateScenario(e[1], e[2], e[3])
    \/ \E key \in ResetKeys : resetScenario(key)
    \/ \E v \in Spots : handleSpotPriceChange(v)
    \/ \E b \in BOOLEAN : setUseSimulation(b)
    \/ \E i \in EditRows, v \in PriceEntries : setManualForward(i, v)
    \/ \E i \in EditRows, v \in PriceEntries : setRealPrice(i, v)
    \/ setShowImpliedVol
    \/ \E i \in EditRows, v \in VolEntries : setCustomVolatility(i, v)
    \/ RunEffects

Spec == Init /\ [][Next]_vars

\* the extended page over a session: reloads, the saved scenarios page, and
\* the Clear Loaded Scenario button
NextSession ==
    \/ addOption
    \/ calculateResults
    \/ \E key \in ApplyKeys : applyStressTest(key)
    \/ \E v \in Spots : handleSpotPriceChange(v)
    \/ reload
    \/ loadThisScenario
    \/ clearLoadedScenario
    \/ RunEffects

SpecSession == Init /\ [][NextSession]_vars

\* the projection of the extended page over start dates on any day of the
\* month and horizons from one month on
EdgeStartDates ==
    {[y |-> 2024, m |-> 0, d |-> 31], [y |-> 2024, m |-> 7, d |-> 31],
     [y |-> 2024, m |-> 10, d |-> 15], [y |-> 2025, m |-> 0, d |-> 29],
     [y |-> 2024, m |-> 11, d |-> 30]}
EdgeHedgeMonths == {1, 2, 3}

InitDates ==
    /\ params \in [startDate : EdgeStartDates, monthsToHedge : EdgeHedgeMonths,
                   interestRate : {2 * SCALE}, totalVolume : {12 * SCALE},
                   spotPrice : {100 * SCALE}]
    /\ initialSpotPrice = params.spotPrice
    /\ strategy = <<>>
    /\ results = NoResults
    /\ payoffData = <<>>
    /\ manualForwards = EmptyMap
    /\ realPrices = EmptyMap
    /\ realPriceParams = DefaultRealPriceParams
    /\ stressTestScenarios = InitialCatalog
    /\ activeStressTest = Null
    /\ showImpliedVol = FALSE
    /\ customVolatilities = EmptyMap
    /\ pending = {}
    /\ lastOp = [op |-> "init", key |-> "", phase |-> "effects"]
    /\ projSpot = params.spotPrice
    /\ enteredSpot = params.spotPrice
    /\ steps = 0

NextDates ==
    \/ addOption
    \/ \E i \in 1..MaxLegs, e \in OptionEdits : updateOption(i, e[1], e[2])
    \/ calculateResults
    \/ RunEffects

SpecDates == InitDates /\ [][NextDates]_vars

\* the extended page with the leg controls of both tabs, without the scenarios
NextLegs ==
    \/ addOption
    \/ \E i \in 1..MaxLegs : removeOption(i)
    \/ \E i \in 1..MaxLegs, e \in LegEdits : updateOption(i, e[1], e[2])
    \/ calculateResults
    \/ \E v \in Spots : handleSpotPriceChange(v)
    \/ RunEffects

SpecLegs == Init /\ [][NextLegs]_vars

\* ---------------------------------------------------- projection, basic page
\* the month ends calculateResults walks through
MonthsBasic(p) ==
    [k \in 1..Max(p.monthsToHedge, 1) |->
        IF k = 1 THEN LastDayOfMonth(p.startDate)
        ELSE LastDayOfMonth(StepMonths(p.startDate, k - 1))]

\* diffTime / (325.25 * 24 * 60 * 60 * 1000)
TimeToMaturityBasic(p, date) ==
    (Abs(DaysBetween(date, p.startDate)) * 100 * SCALE) \div 32525

\* spotPrice * Math.exp(interestRate/100 * (date - startDate)/(365 days))
CarryForward(p, date) ==
    Mul(p.spotPrice,
        Exp(Mul(p.interestRate \div 100, (DaysBetween(date, p.startDate) * SCALE) \div 365)))

\* simulateRealPrices: a path of monthly steps from the spot
RECURSIVE SimulatePath(_, _, _, _, _)
SimulatePath(months, k, currentPrice, rpp, draws) ==
    IF k > Len(months) THEN <<>>
    ELSE LET dt == SCALE \div 12
             next == Mul(currentPrice,
                         Exp(Mul(rpp.drift - Mul(rpp.volatility, rpp.volatility) \div 2, dt)
                             + Mul(Mul(rpp.volatility, Sqrt(dt)), draws[k - 1])))
         IN  <<next>> \o SimulatePath(months, k + 1, next, rpp, draws)

simulateRealPrices(p, rpp, draws) ==
    LET months == MonthsBasic(p)
        path == SimulatePath(months, 1, p.spotPrice, rpp, draws)
    IN  Written(Len(months), [i \in 0..Len(months) - 1 |-> MonthKey(months[i + 1])],
                [i \in 0..Len(months) - 1 |-> path[i + 1]])

\* hedgedCost of the basic page
HedgedCostBasic(monthlyVolume, realPrice, strategyPrice, totalPayoff) ==
    -Mul(monthlyVolume, realPrice) - Mul(monthlyVolume, strategyPrice)
        + Mul(monthlyVolume, totalPayoff)

\* deltaPnL of the basic page
DeltaPnLBasic(unhedgedCost, hedgedCost) == hedgedCost - unhedgedCost

PeriodBasic(p, strat, mf, rp, date) ==
    LET monthKey == MonthKey(date)
        forward == Lookup(mf, monthKey, CarryForward(p, date))
        realPrice == Lookup(rp, monthKey, forward)
        t == TimeToMaturityBasic(p, date)
        monthlyVolume == p.totalVolume \div p.monthsToHedge
        Row(optionPrices) ==
            LET strategyPrice == StrategyPrice(optionPrices)
                totalPayoff == TotalPayoff(optionPrices, realPrice)
                hedgedCost == HedgedCostBasic(monthlyVolume, realPrice, strategyPrice, totalPayoff)
                unhedgedCost == -Mul(monthlyVolume, realPrice)
            IN  [date |-> LabelDate(date), timeToMaturity |-> t, forward |-> forward,
                 realPrice |-> realPrice, optionPrices |-> optionPrices,
                 strategyPrice |-> strategyPrice, totalPayoff |-> totalPayoff,
                 monthlyVolume |-> monthlyVolume, hedgedCost |-> hedgedCost,
                 unhedgedCost |-> unhedgedCost,
                 deltaPnL |-> DeltaPnLBasic(unhedgedCost, hedgedCost)]
    IN  Only({Row(ops) : ops \in {OptionPrices("basic", FALSE, EmptyMap, strat, p, forward, t,
                                               monthKey)}})

\* detailedResults of calculateResults
ProjectBasic(p, strat, mf, rp) ==
    LET months == MonthsBasic(p)
    IN  Eager([k \in 1..Len(months) |-> PeriodBasic(p, strat, mf, rp, months[k])])

DrawChoicesBasic ==
    IF realPriceParams.useSimulation
    THEN Draws(params.monthsToHedge) ELSE {NoDraws(params.monthsToHedge)}

\* ------------------------------------------------------- handlers, basic page
addOptionBasic ==
    /\ UserEvent("addOption", "")
    /\ Len(strategy) < MaxLegs
    /\ strategy' = Append(strategy, DefaultLeg)
    /\ pending' = {"strategy"}
    /\ UNCHANGED <<params, initialSpotPrice, results, payoffData, manualForwards, realPrices,
                   realPriceParams, stressTestScenarios, activeStressTest, showImpliedVol,
                   customVolatilities, projSpot, enteredSpot>>

removeOptionBasic(index) ==
    LET newStrategy == RemoveAt(strategy, index)
    IN  /\ UserEvent("removeOption", "")
        /\ index \in 1..Len(strategy)
        /\ strategy' = newStrategy
        /\ payoffData' = IF Len(newStrategy) > 0 THEN PayoffCurve("basic", strategy, params)
                         ELSE <<>>
        /\ pending' = {"strategy"}
        /\ UNCHANGED <<params, initialSpotPrice, results, manualForwards, realPrices,
                       realPriceParams, stressTestScenarios, activeStressTest, showImpliedVol,
                       customVolatilities, projSpot, enteredSpot>>

updateOptionBasic(index, field, value) ==
    LET newStrategy == [strategy EXCEPT ![index][field] = value]
    IN  /\ UserEvent("updateOption", "")
        /\ index \in 1..Len(strategy)
        /\ strategy' = newStrategy
        /\ payoffData' = PayoffCurve("basic", newStrategy, params)
        /\ pending' = {"strategy"}
        /\ UNCHANGED <<params, initialSpotPrice, results, manualForwards, realPrices,
                       realPriceParams, stressTestScenarios, activeStressTest, showImpliedVol,
                       customVolatilities, projSpot, enteredSpot>>

\* the state updates calculateResults queues, read from the state its closure
\* holds; realPrices is passed because applyStressTest queues no update of it
CalculateBasic(draws) ==
    /\ results' = ProjectBasic(params, strategy, manualForwards, realPrices)
    /\ realPrices' = IF realPriceParams.useSimulation
                     THEN simulateRealPrices(params, realPriceParams, draws) ELSE realPrices
    /\ payoffData' = IF Len(strategy) = 0 THEN payoffData
                     ELSE PayoffCurve("basic", strategy, params)
    /\ projSpot' = params.spotPrice

calculateResultsBasic ==
    /\ UserEvent("calculateResults", "")
    /\ \E draws \in DrawChoicesBasic : CalculateBasic(draws)
    /\ pending' = {}
    /\ UNCHANGED <<params, initialSpotPrice, strategy, manualForwards, realPriceParams,
                   stressTestScenarios, activeStressTest, showImpliedVol, customVolatilities,
                   enteredSpot>>

\* forward curve of the basic page: based on the spot of the closure
ForwardsAfterStressBasic(p, mf, scenario) ==
    IF Val(scenario.forwardBasis) # 0
    THEN Overwrite(mf, BasisCurve(p, p.spotPrice, Val(scenario.forwardBasis)))
    ELSE mf

applyStressTestBasic(scenarioKey) ==
    LET scenario == stressTestScenarios[scenarioKey]
    IN  /\ UserEvent("applyStressTest", scenarioKey)
        /\ scenarioKey \in DOMAIN stressTestScenarios
        /\ realPriceParams' = [realPriceParams EXCEPT !.useSimulation = TRUE,
                                                      !.volatility = scenario.volatility,
                                                      !.drift = scenario.drift]
        /\ params' = IF scenario.priceShock # 0
                     THEN [params EXCEPT !.spotPrice = StressedSpot(params.spotPrice, scenario)]
                     ELSE params
        /\ manualForwards' = ForwardsAfterStressBasic(params, manualForwards, scenario)
        /\ \E draws \in DrawChoicesBasic : CalculateBasic(draws)
        /\ pending' = {}
        /\ UNCHANGED <<initialSpotPrice, strategy, stressTestScenarios, activeStressTest,
                       showImpliedVol, customVolatilities, enteredSpot>>

\* the Spot Price input
setSpotPriceBasic(newPrice) ==
    /\ UserEvent("setSpotPrice", "")
    /\ params' = [params EXCEPT !.spotPrice = newPrice]
    /\ enteredSpot' = newPrice
    /\ pending' = {}
    /\ UNCHANGED <<initialSpotPrice, strategy, results, payoffData, manualForwards, realPrices,
                   realPriceParams, stressTestScenarios, activeStressTest, showImpliedVol,
                   customVolatilities, projSpot>>

setUseSimulationBasic(checked) ==
    /\ UserEvent("setUseSimulation", "")
    /\ realPriceParams' = [realPriceParams EXCEPT !.useSimulation = checked]
    /\ pending' = {}
    /\ UNCHANGED <<params, initialSpotPrice, strategy, results, payoffData, manualForwards,
                   realPrices, stressTestScenarios, activeStressTest, showImpliedVol,
                   customVolatilities, projSpot, enteredSpot>>

\* useEffect[strategy]
RunEffectsBasic ==
    /\ pending # {}
    /\ payoffData' = IF Len(strategy) > 0 THEN PayoffCurve("basic", strategy, params)
                     ELSE payoffData
    /\ pending' = {}
    /\ lastOp' = [lastOp EXCEPT !.phase = "effects"]
    /\ UNCHANGED <<params, initialSpotPrice, strategy, results, manualForwards, realPrices,
                   realPriceParams, stressTestScenarios, activeStressTest, showImpliedVol,
                   customVolatilities, projSpot, enteredSpot, steps>>

ApplyKeysBasic == {"crash", "contango"}

InitBasic ==
    /\ params \in [startDate : StartDates, monthsToHedge : HedgeMonths,
                   interestRate : {2 * SCALE}, totalVolume : {12 * SCALE},
                   spotPrice : {100 * SCALE}]
    /\ initialSpotPrice = params.spotPrice
    /\ strategy = <<>>
    /\ results = NoResults
    /\ payoffData = <<>>
    /\ manualForwards = EmptyMap
    /\ realPrices = EmptyMap
    /\ realPriceParams = [useSimulation |-> FALSE, volatility |-> 300, drift |-> 10]
    /\ stressTestScenarios = BasicCatalog
    /\ activeStressTest = Null
    /\ showImpliedVol = FALSE
    /\ customVolatilities = EmptyMap
    /\ pending = {}
    /\ lastOp = [op |-> "init", key |-> "", phase |-> "effects"]
    /\ projSpot = params.spotPrice
    /\ enteredSpot = params.spotPrice
    /\ steps = 0

NextBasic ==
    \/ addOptionBasic
    \/ \E i \in 1..MaxLegs : removeOptionBasic(i)
    \/ \E i \in 1..MaxLegs, e \in OptionEdits : updateOptionBasic(i, e[1], e[2])
    \/ calculateResultsBasic
    \/ \E key \in ApplyKeysBasic : applyStressTestBasic(key)
    \/ \E v \in Spots : setSpotPriceBasic(v)
    \/ \E b \in BOOLEAN : setUseSimulationBasic(b)
    \/ RunEffectsBasic

SpecBasic == InitBasic /\ [][NextBasic]_vars

\* ------------------------------------------------------- the pricer alone
\* The pure functions of the pricer applied to arguments of their domain: the
\* page stays in its initial state and lastOp holds one call, its arguments
\* and, once it has returned, its value.
Pages == {"extended", "basic"}
Underlyings == {80 * SCALE, 100 * SCALE, 120 * SCALE}
StrikePrices == {90 * SCALE, 100 * SCALE, 110 * SCALE}
Rates == {0, 20, 50}
Maturities == {83, SCALE \div 2, SCALE}
Volatilities == {100, 200, 500}
CdfArguments == {-2 * SCALE, -SCALE, -SCALE \div 2, 0, SCALE \div 2, SCALE, 2 * SCALE}

\* the calls to make: calculateOptionPrice on arguments of its domain, cdf on any x
PricerCalls ==
    {[op |-> "calculateOptionPrice", key |-> "", phase |-> "arguments", page |-> page,
      args |-> [type |-> type, S |-> S, K |-> K, r |-> r, t |-> t, sigma |-> sigma],
      value |-> 0] :
        page \in Pages, type \in {"call", "put"}, S \in Underlyings, K \in StrikePrices,
        r \in Rates, t \in Maturities, sigma \in Volatilities}
    \cup {[op |-> "cdf", key |-> "", phase |-> "arguments", page |-> page,
           args |-> [x |-> x], value |-> 0] : page \in Pages, x \in CdfArguments}

InitPricer ==
    /\ params \in [startDate : StartDates, monthsToHedge : HedgeMonths,
                   interestRate : {2 * SCALE}, totalVolume : {12 * SCALE},
                   spotPrice : {100 * SCALE}]
    /\ initialSpotPrice = params.spotPrice
    /\ strategy = <<>>
    /\ results = NoResults
    /\ payoffData = <<>>
    /\ manualForwards = EmptyMap
    /\ realPrices = EmptyMap
    /\ realPriceParams = [useSimulation |-> FALSE, volatility |-> 300, drift |-> 10]
    /\ stressTestScenarios = InitialCatalog
    /\ activeStressTest = Null
    /\ showImpliedVol = FALSE
    /\ customVolatilities = EmptyMap
    /\ pending = {}
    /\ lastOp \in PricerCalls
    /\ projSpot = params.spotPrice
    /\ enteredSpot = params.spotPrice
    /\ steps = 0

priceOption ==
    /\ lastOp.op = "calculateOptionPrice"
    /\ lastOp.phase = "arguments"
    /\ lastOp' = [lastOp EXCEPT
                    !.phase = "returned",
                    !.value = calculateOptionPrice(lastOp.page, showImpliedVol,
                                                   customVolatilities, lastOp.args.type,
                                                   lastOp.args.S, lastOp.args.K, lastOp.args.r,
                                                   lastOp.args.t, lastOp.args.sigma, NoKey)]
    /\ UNCHANGED <<params, initialSpotPrice, strategy, results, payoffData, manualForwards,
                   realPrices, realPriceParams, stressTestScenarios, activeStressTest,
                   showImpliedVol, customVolatilities, pending, projSpot, enteredSpot, steps>>

evaluateCdf ==
    /\ lastOp.op = "cdf"
    /\ lastOp.phase = "arguments"
    /\ lastOp' = [lastOp EXCEPT !.phase = "returned",
                                !.value = NormalCdf(lastOp.page, lastOp.args.x)]
    /\ UNCHANGED <<params, initialSpotPrice, strategy, results, payoffData, manualForwards,
                   realPrices, realPriceParams, stressTestScenarios, activeStressTest,
                   showImpliedVol, customVolatilities, pending, projSpot, enteredSpot, steps>>

NextPricer ==
    \/ priceOption
    \/ evaluateCdf

SpecPricer == InitPricer /\ [][NextPricer]_vars

\* ------------------------------------------------------------------ claims
\* the scenario a completed applyStressTest ran, and the periods' month keys
RanScenario == lastOp.op = "applyStressTest" /\ lastOp.key \in DOMAIN stressTestScenarios
LastScenario == stressTestScenarios[lastOp.key]
PeriodIndexes == 0..params.monthsToHedge - 1
PeriodKey(i) == MonthKey(AddMonths(params.startDate, i))

\* C1: when applyStressTest(K) completes for a catalog scenario K and a non-empty
\* strategy, the stored periods are the projection of the state this call
\* installed (its simulation parameters, manualForwards and realPrices).
C1_ResultsProjectInstalledState ==
    (RanScenario /\ lastOp.phase = "handler" /\ strategy # <<>>)
        => \E draws \in DrawChoices : results = ResultsOfCalculate(draws)

\* C2: after applyStressTest(K) the spot the re-projection read is the spot the
\* user entered last times (1 + K.priceShock): the shock is neither ignored nor
\* compounded.
C2_ProjectionUsesStressedSpot ==
    (RanScenario /\ strategy # <<>>)
        => projSpot = StressedSpot(enteredSpot, LastScenario)

\* C3: after applyStressTest(K) with K.forwardBasis defined and nonzero, the
\* forward of every stored period i is stressedSpot * e^(forwardBasis * i).
C3_ForwardCurveOfPeriods ==
    (RanScenario /\ Truthy(LastScenario.forwardBasis) /\ strategy # <<>>)
        => \A i \in PeriodIndexes :
              results[i + 1].forward
                  = BasisPrice(StressedSpot(enteredSpot, LastScenario),
                               Val(LastScenario.forwardBasis), i)

\* C4: after applyStressTest(K) with K.realBasis defined and nonzero, once the
\* effects have run, manualForwards holds for every period i the carry-only
\* forward and realPrices holds stressedSpot * e^(realBasis * i).
C4_RealBasisCurvesSettled ==
    (RanScenario /\ Truthy(LastScenario.realBasis) /\ pending = {})
        => \A i \in PeriodIndexes :
              /\ PeriodKey(i) \in DOMAIN manualForwards
              /\ manualForwards[PeriodKey(i)]
                    = CarryPrice(params, StressedSpot(enteredSpot, LastScenario), i)
              /\ PeriodKey(i) \in DOMAIN realPrices
              /\ realPrices[PeriodKey(i)]
                    = BasisPrice(StressedSpot(enteredSpot, LastScenario),
                                 Val(LastScenario.realBasis), i)

\* C5: after applyStressTest(K), useSimulation is false exactly when K.realBasis
\* is defined (a defined 0 included), and the simulation volatility and drift
\* are K's.
C5_SimulationParamsOfScenario ==
    RanScenario
        => /\ realPriceParams.useSimulation = ~Defined(LastScenario.realBasis)
           /\ realPriceParams.volatility = LastScenario.volatility
           /\ realPriceParams.drift = LastScenario.drift

\* month keys applyStressTest writes for a basis
KeysOfBasis(basis) ==
    IF Truthy(basis) THEN {ScenarioKey(params, i) : i \in PeriodIndexes} ELSE {}

\* C6: when applyStressTest(K) completes, a mapping whose basis field is defined
\* in K holds no entry from before the call: every entry of manualForwards
\* (forwardBasis defined) and of realPrices (realBasis defined) was written by
\* this call.
C6_NoOverrideSurvives ==
    (RanScenario /\ lastOp.phase = "handler")
        => /\ Defined(LastScenario.forwardBasis)
                => DOMAIN manualForwards
                      \subseteq KeysOfBasis(LastScenario.forwardBasis)
                                \cup KeysOfBasis(LastScenario.realBasis)
           /\ Defined(LastScenario.realBasis)
                => DOMAIN realPrices \subseteq KeysOfBasis(LastScenario.realBasis)

\* C7: applyStressTest with a key absent from the catalog changes nothing:
\* parameters, simulation parameters, both override mappings, results, payoff
\* curve and the active-scenario marker keep their values.
C7_AbsentKeyIsNoOp ==
    [][(steps' = steps + 1 /\ lastOp'.op = "applyStressTest"
            /\ lastOp'.key \notin DOMAIN stressTestScenarios)
        => UNCHANGED <<params, realPriceParams, manualForwards, realPrices, results,
                       payoffData, activeStressTest>>]_vars

\* C8: in every stored period deltaPnL = unhedgedCost - hedgedCost.
C8_DeltaIsUnhedgedMinusHedged ==
    \A k \in 1..Len(results) :
        results[k].deltaPnL = results[k].unhedgedCost - results[k].hedgedCost

\* C9: in every stored period unhedgedCost = monthlyVolume * realPrice and
\* hedgedCost = monthlyVolume * (realPrice + strategyPremium - totalPayoff), the
\* premium and the payoff being the quantity-weighted sums over the legs.
C9_CostAccounting ==
    \A k \in 1..Len(results) :
        LET row == results[k]
        IN  /\ row.strategyPrice = StrategyPrice(row.optionPrices)
            /\ row.totalPayoff = TotalPayoff(row.optionPrices, row.realPrice)
            /\ row.unhedgedCost = Mul(row.monthlyVolume, row.realPrice)
            /\ row.hedgedCost
                  = Mul(row.monthlyVolume, row.realPrice + row.strategyPrice - row.totalPayoff)

\* C10: calculateResults with an empty strategy stores the empty state: no
\* result set and an empty payoff curve.
C10_EmptyStrategyStoresEmptyState ==
    (lastOp.op = "calculateResults" /\ lastOp.phase = "handler" /\ strategy = <<>>)
        => results = NoResults /\ payoffData = <<>>

\* C11: removeOption of the only leg leaves, once the effects have run, the
\* strategy empty, the result set cleared and the payoff curve empty.
C11_RemovingLastLegClears ==
    (lastOp.op = "removeOption" /\ pending = {} /\ strategy = <<>>)
        => results = NoResults /\ payoffData = <<>>

\* C12: after addOption, updateOption or removeOption that leaves a non-empty
\* strategy, once the effects have run, the stored periods and the stored payoff
\* curve are those of a fresh projection of the current strategy under the
\* current parameters and overrides.
C12_LegMutationReprojects ==
    (lastOp.op \in {"addOption", "updateOption", "removeOption"} /\ pending = {}
        /\ strategy # <<>>)
        => /\ \E draws \in DrawChoices : results = ResultsOfCalculate(draws)
           /\ payoffData = PayoffOfCalculate

\* the values of a period that depend on the legs
LegValues(row) ==
    <<row.optionPrices, row.strategyPrice, row.totalPayoff, row.hedgedCost,
      row.unhedgedCost, row.deltaPnL>>

\* C13: after removeOption removes one leg of a 2-leg strategy with a stored
\* result set, the leg premium, strategy premium, payoff, costs and deltaPnL of
\* every stored period are those of a projection, under the current parameters
\* and overrides, of the strategy holding the remaining leg alone.
C13_RemainingLegAsIfAlone ==
    (lastOp.op = "removeOption" /\ Len(strategy) = 1 /\ results # NoResults)
        => \E draws \in DrawChoices :
              LET fresh == ResultsOfCalculate(draws)
              IN  /\ Len(results) = Len(fresh)
                  /\ \A k \in 1..Len(results) : LegValues(results[k]) = LegValues(fresh[k])

\* a projection has just been stored by calculateResults
Projected == lastOp.op = "calculateResults" /\ lastOp.phase = "handler" /\ results # NoResults

\* C14: the forward of every projected period is the manualForwards entry of
\* the period's month key when there is one, and otherwise
\* spot * e^(rate * years elapsed from the start date to the period's date).
C14_ForwardOfPeriod ==
    Projected
        => \A i \in PeriodIndexes :
              results[i + 1].forward
                  = IF PeriodKey(i) \in DOMAIN manualForwards
                    THEN manualForwards[PeriodKey(i)]
                    ELSE CarryForward(params, AddMonths(params.startDate, i))

\* C15: with useSimulation false, the real price of every projected period is
\* the realPrices entry of the period's month key when there is one, and
\* otherwise the period's forward.
C15_RealPriceOfPeriod ==
    (Projected /\ ~realPriceParams.useSimulation)
        => \A i \in PeriodIndexes :
              results[i + 1].realPrice
                  = IF PeriodKey(i) \in DOMAIN realPrices
                    THEN realPrices[PeriodKey(i)]
                    ELSE results[i + 1].forward

\* C16: a stored projection of a non-empty strategy has exactly monthsToHedge
\* periods, each with monthlyVolume = totalVolume / monthsToHedge, and the
\* period volumes sum to totalVolume.
C16_PeriodsAndVolumes ==
    (results # NoResults /\ strategy # <<>>)
        => /\ Len(results) = params.monthsToHedge
           /\ \A k \in 1..Len(results) :
                 results[k].monthlyVolume = params.totalVolume \div params.monthsToHedge
           /\ SumSeq([k \in 1..Len(results) |-> results[k].monthlyVolume])
                 = params.totalVolume

\* a projection of a non-empty strategy over monthsToHedge >= 1 months is stored
C16_Witness ==
    /\ lastOp.op = "calculateResults"
    /\ strategy # <<>>
    /\ params.monthsToHedge >= 1
    /\ results # NoResults
    /\ Len(results) = 3

\* C17: resetScenario(key) on a key of the built-in catalog, after any edits of
\* that entry, leaves the entry at its built-in default values.
C17_ResetRestoresDefault ==
    (lastOp.op = "resetScenario" /\ lastOp.key \in DOMAIN InitialCatalog)
        => stressTestScenarios[lastOp.key] = InitialCatalog[lastOp.key]

\* C18: updateScenario(K, ..) and resetScenario(K) change no catalog entry but K
\* and leave parameters, overrides, simulation parameters and results unchanged.
C18_ScenarioEditFrame ==
    [][(steps' = steps + 1 /\ lastOp'.op \in {"updateScenario", "resetScenario"})
          => /\ \A k \in DOMAIN stressTestScenarios \ {lastOp'.key} :
                   /\ k \in DOMAIN stressTestScenarios'
                   /\ stressTestScenarios'[k] = stressTestScenarios[k]
             /\ DOMAIN stressTestScenarios' = DOMAIN stressTestScenarios
             /\ UNCHANGED <<params, initialSpotPrice, manualForwards, realPrices,
                            customVolatilities, realPriceParams, results, payoffData,
                            strategy, activeStressTest, showImpliedVol>>]_vars

\* an edited entry was reset while another entry carried an edit of its own
C18_Witness ==
    /\ lastOp.op = "resetScenario"
    /\ lastOp.key = "crash"
    /\ stressTestScenarios.crash = InitialCatalog.crash
    /\ stressTestScenarios.contango # InitialCatalog.contango
    /\ results # NoResults

\* C19: with a non-empty strategy, once the pending effects have run after a
\* change of the strategy or of spotPrice, the stored payoff curve is the curve
\* built from the current strategy and the current spotPrice.
C19_PayoffFollowsStrategyAndSpot ==
    (/\ lastOp.op \in {"addOption", "updateOption", "removeOption", "handleSpotPriceChange"}
     /\ pending = {}
     /\ strategy # <<>>)
        => payoffData = PayoffCurve("extended", strategy, params)

\* the premium of leg j in period i at volatility sigma, from the stored
\* forward and time to maturity of the period
PremiumAt(i, j, sigma) ==
    BlackScholes("extended", strategy[j].type, results[i + 1].forward,
                 StrikeOf(strategy[j], params.spotPrice), params.interestRate \div 100,
                 results[i + 1].timeToMaturity, sigma)

\* C20: with monthly implied volatility enabled, every leg premium of a period
\* that has an override is priced with the override; in a period without one it
\* is priced with the leg's own volatility.
C20_OverridePricesThePeriod ==
    (/\ lastOp.op \in {"calculateResults", "setCustomVolatility"}
     /\ lastOp.phase = "handler"
     /\ results # NoResults)
        => \A i \in PeriodIndexes : \A j \in 1..Len(strategy) :
              results[i + 1].optionPrices[j].price
                 = PremiumAt(i, j, IF showImpliedVol /\ PeriodKey(i) \in DOMAIN customVolatilities
                                   THEN customVolatilities[PeriodKey(i)]
                                   ELSE strategy[j].volatility \div 100)

\* the sum of a field over the periods of a result set dated in year y
SumOfYear(rs, y, field) ==
    SumSeq([k \in 1..Len(rs) |-> IF ParseDate(rs[k].date).y = y THEN rs[k][field] ELSE 0])

\* C21: the yearly summary of a result set has one group per calendar year of
\* its periods, keyed by that year, whose hedgedCost, unhedgedCost and deltaPnL
\* are the sums over the periods dated in that year.
C21_YearlySummaryByCalendarYear ==
    results # NoResults
        => LET yearly == calculateYearlyResults(results)
               years == {ParseDate(results[k].date).y : k \in 1..Len(results)}
           IN  /\ DOMAIN yearly = {{y} : y \in years}
               /\ \A y \in years :
                     /\ yearly[{y}].hedgedCost = SumOfYear(results, y, "hedgedCost")
                     /\ yearly[{y}].unhedgedCost = SumOfYear(results, y, "unhedgedCost")
                     /\ yearly[{y}].deltaPnL = SumOfYear(results, y, "deltaPnL")

\* the periods a projection without simulation yields from a state
DeterministicProjection(p, strat, mf, rp, rpp, siv, cv) ==
    Project(p, strat, mf, rp, [rpp EXCEPT !.useSimulation = FALSE], siv, cv,
            NoDraws(p.monthsToHedge))

\* C22: a reload of the page from the saved snapshot, mount effects included,
\* leaves the periods of a projection without simulation as they were before.
C22_ReloadKeepsProjection ==
    [][(lastOp'.op = "reload" /\ steps' = steps + 1 /\ strategy # <<>>)
          => DeterministicProjection(params', strategy', manualForwards', realPrices',
                                     realPriceParams', showImpliedVol', customVolatilities')
                = DeterministicProjection(params, strategy, manualForwards, realPrices,
                                          realPriceParams, showImpliedVol, customVolatilities)]_vars

\* the premium of the option of the other type for the arguments of the call
OtherPremium ==
    calculateOptionPrice(lastOp.page, showImpliedVol, customVolatilities,
                         IF lastOp.args.type = "call" THEN "put" ELSE "call",
                         lastOp.args.S, lastOp.args.K, lastOp.args.r, lastOp.args.t,
                         lastOp.args.sigma, NoKey)

\* C23: for underlying, strike, t and volatility > 0 the call premium minus the
\* put premium of calculateOptionPrice is underlying - strike * e^(-rate * t),
\* to the two units the four fixed-point products can lose.
C23_PutCallParity ==
    (lastOp.op = "calculateOptionPrice" /\ lastOp.phase = "returned")
        => LET call == IF lastOp.args.type = "call" THEN lastOp.value ELSE OtherPremium
               put == IF lastOp.args.type = "put" THEN lastOp.value ELSE OtherPremium
               parity == lastOp.args.S
                            - Mul(lastOp.args.K, Exp(-Mul(lastOp.args.r, lastOp.args.t)))
           IN  Abs((call - put) - parity) <= 2

\* an in-the-money put was priced on the extended page, with a premium that is
\* not its parity value alone
C23_Witness ==
    /\ lastOp.op = "calculateOptionPrice"
    /\ lastOp.phase = "returned"
    /\ lastOp.page = "extended"
    /\ lastOp.args.type = "put"
    /\ lastOp.args.S < lastOp.args.K
    /\ lastOp.args.r > 0
    /\ lastOp.value > lastOp.args.K - lastOp.args.S

\* C24: the normal CDF of the pricer is 0.5 at 0 and cdf(-x) = 1 - cdf(x) for
\* every x, 0 included, to the one unit the halving can lose.
C24_CdfSymmetry ==
    (lastOp.op = "cdf" /\ lastOp.phase = "returned")
        => /\ lastOp.args.x = 0 => lastOp.value = SCALE \div 2
           /\ Abs(NormalCdf(lastOp.page, -lastOp.args.x) - (SCALE - lastOp.value)) <= 1

\* C25: in every projection each call of the option pricer receives a
\* timeToMaturity > 0 and an effective volatility > 0.
C25_PricerPreconditions ==
    Projected
        => \A i \in PeriodIndexes : \A j \in 1..Len(strategy) :
              /\ results[i + 1].timeToMaturity > 0
              /\ EffectiveVolatility(showImpliedVol, customVolatilities, PeriodKey(i),
                                     strategy[j].volatility \div 100) > 0

\* one monthly step (dt = 1/12) of the simulated price from price with draw u
MonthlyStep(price, rpp, u) ==
    LET dt == SCALE \div 12
    IN  Mul(price, Exp(Mul(rpp.drift - Mul(rpp.volatility, rpp.volatility) \div 2, dt)
                       + Mul(Mul(rpp.volatility, Sqrt(dt)), u)))

\* C26: with useSimulation true the real prices of a projection form one
\* path: period 0 is one monthly step from spotPrice and each later period one
\* monthly step from the real price of the period before, one draw per period.
C26_SimulatedPricesFormOnePath ==
    (/\ lastOp.op = "calculateResults"
     /\ lastOp.phase = "handler"
     /\ results # NoResults
     /\ realPriceParams.useSimulation)
        => \E draws \in Draws(Len(results)) :
              \A i \in 0..Len(results) - 1 :
                 results[i + 1].realPrice
                    = MonthlyStep(IF i = 0 THEN params.spotPrice ELSE results[i].realPrice,
                                  realPriceParams, draws[i])

\* C27: in every reachable state the spot the scenario engine shocks,
\* initialSpotPrice, is the spot the parameters hold.
C27_InitialSpotIsCurrentSpot == initialSpotPrice = params.spotPrice

\* C28: in every reachable state the scenario catalog holds the nine built-in keys.
C28_CatalogKeepsBuiltInKeys == DOMAIN InitialCatalog \subseteq DOMAIN stressTestScenarios

\* the Strike Type control of a leg shows Percentage
ShowsPercentage(opt) == opt.strikeType \in {"percent", "percentage"}

\* C29: in every reachable state each leg's strikeType is 'percent' or
\* 'absolute', and a projection prices every leg whose control shows
\* Percentage with strike = spotPrice * strike / 100.
C29_StrikeTypeIsPercentOrAbsolute ==
    /\ \A j \in 1..Len(strategy) : strategy[j].strikeType \in {"percent", "absolute"}
    /\ Projected
          => \A i \in PeriodIndexes : \A j \in 1..Len(strategy) :
                ShowsPercentage(strategy[j])
                   => results[i + 1].optionPrices[j].strike
                         = Mul(params.spotPrice, strategy[j].strike \div 100)

\* the year-month key of the i-th calendar month from the month of a date
MonthFrom(date, i) == <<date.y + ((date.m + i) \div 12), ((date.m + i) % 12) + 1>>

\* C30: the periods of a projection fall in monthsToHedge consecutive calendar
\* months beginning with the start month, for every start day and horizon; the
\* year-month keys of the periods are then pairwise distinct.
C30_PeriodsInConsecutiveMonths ==
    Projected
        => /\ Len(results) = params.monthsToHedge
           /\ \A i \in PeriodIndexes :
                 MonthKey(ParseDate(results[i + 1].date)) = MonthFrom(params.startDate, i)

====
